---- MODULE Spec2Model ----
(***************************************************************************)
(* A model of gbdt's TSVDataStore (src/data_store/tsv_data_store.cc):      *)
(* schema resolution (SetupColumns), the parallel parse with ordered       *)
(* delivery (LoadTSVs / LoadBlock), the per-block fold (ProcessBlock) and  *)
(* the finalize fan-out (Finalize).                                        *)
(***************************************************************************)
EXTENDS Integers, Sequences, FiniteSets, TLC

\* ---------------------------------------------------------------- bounds
MaxHeader == 3

MaxCols == 2

MaxFiles == 2

MaxThreads == 2

\* ---------------------------------------------------------------- strings
\* A string is a sequence of characters, so that trimming is computed.
WhiteSpace == {" ", "\n"}

RECURSIVE TrimLeft(_)
TrimLeft(s) ==
  IF s # <<>> /\ Head(s) \in WhiteSpace THEN TrimLeft(Tail(s)) ELSE s

RECURSIVE TrimRight(_)
TrimRight(s) ==
  IF s # <<>> /\ s[Len(s)] \in WhiteSpace
  THEN TrimRight(SubSeq(s, 1, Len(s) - 1))
  ELSE s

TrimWhiteSpace(s) == TrimRight(TrimLeft(s))

\* The tokens a header line is made of (after the split on tabs), and the
\* names a configuration lists.
HeaderTokens == { <<"x">>, <<" ", "x">>, <<"y", "\n">> }

ConfigNames == { <<"x">>, <<"y">> }

RECURSIVE SeqsUpTo(_, _)
SeqsUpTo(S, n) ==
  IF n = 0 THEN { <<>> }
  ELSE LET shorter == SeqsUpTo(S, n - 1)
       IN  shorter \cup { Append(q, e) : q \in shorter, e \in S }

HeaderFiles == SeqsUpTo(HeaderTokens, MaxHeader) \ { <<>> }

\* TSVDataConfig: the three repeated name fields, at most MaxCols names in all.
Configs ==
  { c \in [ binned_float_column : SeqsUpTo(ConfigNames, MaxCols),
            raw_float_column    : SeqsUpTo(ConfigNames, MaxCols),
            string_column       : SeqsUpTo(ConfigNames, MaxCols) ] :
      Len(c.binned_float_column) + Len(c.raw_float_column)
        + Len(c.string_column) <= MaxCols }

\* A list of input files: tsvs[k] is TRUE iff the k-th file exists.
FileLists == SeqsUpTo(BOOLEAN, MaxFiles)

\* ---------------------------------------------------------------- heap
\* Column objects live at addresses; a unique_ptr reset frees the old object
\* and a later new may hand out the freed address again.
Addr == 1 .. MaxCols

\* serial: the object is the serial-th column SetupColumns created (which
\* tells a pointer to this object from a stale pointer to a deleted object that
\* lived at the same address). rows: the rows it holds; adds: the files of
\* the Add calls it completed; inAdd, inFin: calls now running on it; nFin:
\* Finalize calls it completed.
NoColumn ==
  [ st |-> "unalloc", serial |-> 0, kind |-> "none", name |-> <<>>, rows |-> <<>>,
    adds |-> <<>>, inAdd |-> 0, inFin |-> 0, nFin |-> 0 ]

NewColumn(kind, name, serial) ==
  [ st |-> "live", serial |-> serial, kind |-> kind, name |-> name, rows |-> <<>>,
    adds |-> <<>>, inAdd |-> 0, inFin |-> 0, nFin |-> 0 ]

\* ---------------------------------------------------------------- blocks
\* The rows of file f: file f has NumRows(f) rows and the cell of row r at
\* header position p is Cell(f, r, p), distinct for distinct (f, r, p).
NumRows(f) == 1 + (f % 2)

Cell(f, r, p) == << f, r, p >>

\* TSVBlock(tsv, float_column_indices_, string_column_indices_): one array per
\* slot, holding the column at that slot's header position.
TSVBlock(f, fidx, sidx) ==
  [ file |-> f,
    float_columns  |-> [ s \in 1 .. Len(fidx) |->
                           [ r \in 1 .. NumRows(f) |-> << "float", Cell(f, r, fidx[s]) >> ] ],
    string_columns |-> [ s \in 1 .. Len(sidx) |->
                           [ r \in 1 .. NumRows(f) |-> << "string", Cell(f, r, sidx[s]) >> ] ] ]

NullBlock == [ file |-> -1, float_columns |-> <<>>, string_columns |-> <<>> ]

\* ---------------------------------------------------------------- state
VARIABLES
  header_file,              \* the header line, split on tabs (input)
  config,                   \* TSVDataConfig (input)
  tsvs,                     \* the input files (input)
  num_threads,              \* FLAGS_num_threads (input)
  pc,                       \* position of the controlling thread
  i,                        \* loop index of the controlling thread (0-based)
  j,                        \* index of the next task ProcessBlock / Finalize enqueues
  map_from_header_to_index, \* SetupColumns' local map
  column_map_,              \* name -> address of the owned column
  heap,                     \* address -> column object
  binned_float_columns_,    \* << [ptr, slot] >>
  raw_float_columns_,
  string_columns_,
  float_column_indices_,    \* header position of each numeric slot
  string_column_indices_,   \* header position of each categorical slot
  blocks,                   \* the slot array of LoadTSVs
  mutex_,                   \* "free", or held by "main" or by a "worker"
  load_tasks,               \* state of the parse task of each file
  working_block,            \* the block ProcessBlock owns
  processed,                \* files of the blocks handed to ProcessBlock
  pool_tasks,               \* tasks of the pool of ProcessBlock / Finalize
  calls,                    \* the Add and Finalize calls that have returned
  fail                      \* why the process died ("" while it lives)

inputs == << header_file, config, tsvs, num_threads >>

schema == << map_from_header_to_index, column_map_, binned_float_columns_,
             raw_float_columns_, string_columns_, float_column_indices_,
             string_column_indices_ >>

loader == << blocks, mutex_, load_tasks, working_block, processed, pool_tasks,
            calls >>

vars == << inputs, pc, i, j, schema, heap, loader, fail >>

\* ---------------------------------------------------------------- Init
InitWith(hs, cs, fs, ts) ==
  /\ header_file \in hs
  /\ config \in cs
  /\ tsvs \in fs
  /\ num_threads \in ts
  /\ pc = "read_header"
  /\ i = 0
  /\ j = 0
  /\ map_from_header_to_index = <<>>
  /\ column_map_ = <<>>
  /\ heap = [ a \in Addr |-> NoColumn ]
  /\ binned_float_columns_ = <<>>
  /\ raw_float_columns_ = <<>>
  /\ string_columns_ = <<>>
  /\ float_column_indices_ = <<>>
  /\ string_column_indices_ = <<>>
  /\ blocks = <<>>
  /\ mutex_ = "free"
  /\ load_tasks = <<>>
  /\ working_block = NullBlock
  /\ processed = <<>>
  /\ pool_tasks = <<>>
  /\ calls = {}
  /\ fail = ""

\* ---------------------------------------------------------------- SetupColumns
\* The process has not died (of a failed CHECK or of undefined behaviour).
Alive == fail = ""

\* Mutant of BuildHeaderMap: a name is mapped to the size of the map at its
\* insertion instead of its index in the header.
RECURSIVE BuildHeaderMapBySize(_, _, _)
BuildHeaderMapBySize(hs, k, m) ==
  IF k >= Len(hs) THEN m
  ELSE LET h == TrimWhiteSpace(hs[k + 1])
       IN  BuildHeaderMapBySize(hs, k + 1,
             [ n \in (DOMAIN m) \cup {h} |->
                 IF n = h THEN Cardinality(DOMAIN m) ELSE m[n] ])

\* Mutant of BuildHeaderMap: a name that is in the map already keeps the
\* index of its first occurrence (an insert instead of an assignment).
RECURSIVE BuildHeaderMapFirst(_, _, _)
BuildHeaderMapFirst(hs, k, m) ==
  IF k >= Len(hs) THEN m
  ELSE LET h == TrimWhiteSpace(hs[k + 1])
       IN  BuildHeaderMapFirst(hs, k + 1,
             [ n \in (DOMAIN m) \cup {h} |->
                 IF n \in DOMAIN m THEN m[n] ELSE k ])

\* Lines 116-120: later header entries overwrite earlier ones.
RECURSIVE BuildHeaderMap(_, _, _)
BuildHeaderMap(hs, k, m) ==
  IF k >= Len(hs) THEN m
  ELSE LET h == TrimWhiteSpace(hs[k + 1])
       IN  BuildHeaderMap(hs, k + 1,
             [ n \in (DOMAIN m) \cup {h} |-> IF n = h THEN k ELSE m[n] ])

ReadHeader ==
  /\ Alive
  /\ pc = "read_header"
  /\ map_from_header_to_index' = BuildHeaderMap(header_file, 0, <<>>)
  /\ pc' = "setup_binned"
  /\ i' = 0
  /\ UNCHANGED << inputs, j, column_map_, binned_float_columns_, raw_float_columns_,
                  string_columns_, float_column_indices_, string_column_indices_,
                  heap, loader, fail >>

\* it != map_from_header_to_index.end()
HeaderFound(header) == header \in DOMAIN map_from_header_to_index

\* The addresses operator new may return: the object that reset is about to
\* delete is still alive, so its address is not among them. Unused addresses
\* are handed out lowest first; a freed address may be handed out again.
NewAddrs ==
  LET unused == { a \in Addr : heap[a].st = "unalloc" }
      freed  == { a \in Addr : heap[a].st = "freed" }
  IN  freed \cup { a \in unused : \A b \in unused : a <= b }

\* The columns created so far.
NumColumns ==
  Len(binned_float_columns_) + Len(raw_float_columns_) + Len(string_columns_)

\* column_map_[header].reset(new Column(header)) with the new object at a.
ResetColumn(header, kind, a) ==
  /\ heap' = [ b \in Addr |->
                 IF b = a THEN NewColumn(kind, header, NumColumns + 1)
                 ELSE IF header \in DOMAIN column_map_ /\ b = column_map_[header]
                      THEN [ heap[b] EXCEPT !.st = "freed" ]
                      ELSE heap[b] ]
  /\ column_map_' = [ n \in (DOMAIN column_map_) \cup {header} |->
                        IF n = header THEN a ELSE column_map_[n] ]

\* Mutant of SlotPair: the slot is taken from where the allocator put the
\* column instead of from the size of the position list.
SlotPairByAddress(a, indices) == [ ptr |-> a, slot |-> a - 1 ]

\* Mutant of SlotPair: the size is read after the push_back of the position.
SlotPairAfterPush(a, indices) == [ ptr |-> a, slot |-> Len(indices) + 1 ]

\* make_pair(column, float_column_indices_.size())
SlotPair(a, indices) == [ ptr |-> a, slot |-> Len(indices) ]

\* Mutant of SetupAbort: a name that is not found is skipped and the load
\* goes on.
SetupSkip ==
  /\ i' = i + 1
  /\ UNCHANGED << inputs, pc, j, schema, heap, loader, fail >>

\* CHECK(it != map_from_header_to_index.end()) fails: the process dies.
SetupAbort ==
  /\ fail' = "column_not_found"
  /\ UNCHANGED << inputs, pc, i, j, schema, heap, loader >>

\* Lines 122-130, one iteration.
SetupBinned ==
  /\ Alive
  /\ pc = "setup_binned"
  /\ IF i >= Len(config.binned_float_column)
     THEN /\ pc' = "setup_raw"
          /\ i' = 0
          /\ UNCHANGED << inputs, j, schema, heap, loader, fail >>
     ELSE LET header == config.binned_float_column[i + 1] IN
          IF ~HeaderFound(header) THEN SetupAbort
          ELSE \E a \in NewAddrs :
                 /\ ResetColumn(header, "binned", a)
                 /\ binned_float_columns_' =
                      Append(binned_float_columns_, SlotPair(a, float_column_indices_))
                 /\ float_column_indices_' =
                      Append(float_column_indices_, map_from_header_to_index[header])
                 /\ i' = i + 1
                 /\ UNCHANGED << inputs, pc, j, map_from_header_to_index,
                                 raw_float_columns_, string_columns_,
                                 string_column_indices_, loader, fail >>

\* Lines 132-140, one iteration.
SetupRaw ==
  /\ Alive
  /\ pc = "setup_raw"
  /\ IF i >= Len(config.raw_float_column)
     THEN /\ pc' = "setup_string"
          /\ i' = 0
          /\ UNCHANGED << inputs, j, schema, heap, loader, fail >>
     ELSE LET header == config.raw_float_column[i + 1] IN
          IF ~HeaderFound(header) THEN SetupAbort
          ELSE \E a \in NewAddrs :
                 /\ ResetColumn(header, "raw", a)
                 /\ raw_float_columns_' =
                      Append(raw_float_columns_, SlotPair(a, float_column_indices_))
                 /\ float_column_indices_' =
                      Append(float_column_indices_, map_from_header_to_index[header])
                 /\ i' = i + 1
                 /\ UNCHANGED << inputs, pc, j, map_from_header_to_index,
                                 binned_float_columns_, string_columns_,
                                 string_column_indices_, loader, fail >>

\* Lines 142-150, one iteration.
SetupString ==
  /\ Alive
  /\ pc = "setup_string"
  /\ IF i >= Len(config.string_column)
     THEN /\ pc' = "create_blocks"
          /\ i' = 0
          /\ UNCHANGED << inputs, j, schema, heap, loader, fail >>
     ELSE LET header == config.string_column[i + 1] IN
          IF ~HeaderFound(header) THEN SetupAbort
          ELSE \E a \in NewAddrs :
                 /\ ResetColumn(header, "string", a)
                 /\ string_columns_' =
                      Append(string_columns_, SlotPair(a, string_column_indices_))
                 /\ string_column_indices_' =
                      Append(string_column_indices_, map_from_header_to_index[header])
                 /\ i' = i + 1
                 /\ UNCHANGED << inputs, pc, j, map_from_header_to_index,
                                 binned_float_columns_, raw_float_columns_,
                                 float_column_indices_, loader, fail >>

\* ---------------------------------------------------------------- LoadTSVs
NoTask == [ st |-> "none", tmp_block |-> NullBlock ]

\* Line 56: vector<unique_ptr<TSVBlock>> blocks(tsvs.size()); line 58: the pool.
CreateBlocks ==
  /\ Alive
  /\ pc = "create_blocks"
  /\ blocks' = [ k \in 1 .. Len(tsvs) |-> NullBlock ]
  /\ load_tasks' = [ k \in 1 .. Len(tsvs) |-> NoTask ]
  /\ pc' = "enqueue"
  /\ i' = 0
  /\ UNCHANGED << inputs, j, schema, heap, mutex_, working_block, processed,
                  pool_tasks, calls, fail >>

\* Mutant of DrainMore: the loop stops one slot early.
DrainMoreButLast(k) == k + 1 < Len(blocks)

\* Line 65: i < blocks.size()
DrainMore(k) == k < Len(blocks)

\* FileExists(tsv)
FileExists(k) == tsvs[k]

\* Mutant of EnqueueLoad: every parse task is enqueued unchecked and the
\* existence of a file is checked only when the loop of line 65 comes to its slot.
EnqueueLoadLazy ==
  /\ Alive
  /\ \/ /\ pc = "enqueue"
        /\ IF i >= Len(tsvs)
           THEN /\ pc' = IF DrainMore(0) THEN "drain_lock" ELSE "finalize"
                /\ i' = 0
                /\ UNCHANGED << inputs, j, schema, heap, loader, fail >>
           ELSE /\ load_tasks' = [ load_tasks EXCEPT ![i + 1].st = "queued" ]
                /\ i' = i + 1
                /\ UNCHANGED << inputs, pc, j, schema, heap, blocks, mutex_,
                                working_block, processed, pool_tasks, calls, fail >>
     \/ /\ pc = "drain_lock"
        /\ ~FileExists(i + 1)
        /\ fail' = "tsv_missing"
        /\ UNCHANGED << inputs, pc, i, j, schema, heap, loader >>

\* Lines 59-63, one iteration: the existence check of tsvs[i], then the
\* Enqueue of its parse task.
EnqueueLoad ==
  /\ Alive
  /\ pc = "enqueue"
  /\ IF i >= Len(tsvs)
     THEN /\ pc' = IF DrainMore(0) THEN "drain_lock" ELSE "finalize"
          /\ i' = 0
          /\ UNCHANGED << inputs, j, schema, heap, loader, fail >>
     ELSE IF ~FileExists(i + 1)
          THEN /\ fail' = "tsv_missing"
               /\ UNCHANGED << inputs, pc, i, j, schema, heap, loader >>
          ELSE /\ load_tasks' = [ load_tasks EXCEPT ![i + 1].st = "queued" ]
               /\ i' = i + 1
               /\ UNCHANGED << inputs, pc, j, schema, heap, blocks, mutex_,
                               working_block, processed, pool_tasks, calls, fail >>

\* The workers of the pool of LoadTSVs that are running a task.
LoadRunning ==
  Cardinality({ k \in DOMAIN load_tasks :
                  load_tasks[k].st \in { "parsing", "locked", "unlocked" } })

\* Mutant of LoadBlockParse: a parse task is not started while the
\* controlling thread is folding a block.
LoadBlockParseThrottled(k) ==
  /\ Alive
  /\ pc \notin { "process", "fold_enqueue", "fold_join" }
  /\ load_tasks[k].st = "queued"
  /\ LoadRunning < num_threads
  /\ load_tasks' = [ load_tasks EXCEPT ![k] =
                       [ st |-> "parsing",
                         tmp_block |-> TSVBlock(k - 1, float_column_indices_,
                                                string_column_indices_) ] ]
  /\ UNCHANGED << inputs, pc, i, j, schema, heap, blocks, mutex_, working_block,
                  processed, pool_tasks, calls, fail >>

\* A worker takes the parse task of file k; line 41: the block is parsed.
LoadBlockParse(k) ==
  /\ Alive
  /\ load_tasks[k].st = "queued"
  /\ LoadRunning < num_threads
  /\ load_tasks' = [ load_tasks EXCEPT ![k] =
                       [ st |-> "parsing",
                         tmp_block |-> TSVBlock(k - 1, float_column_indices_,
                                                string_column_indices_) ] ]
  /\ UNCHANGED << inputs, pc, i, j, schema, heap, blocks, mutex_, working_block,
                  processed, pool_tasks, calls, fail >>

\* Mutant of LoadBlockLock: the parse task goes on to its store without
\* waiting for mutex_ to be free.
LoadBlockLockUnguarded(k) ==
  /\ Alive
  /\ load_tasks[k].st = "parsing"
  /\ mutex_' = "worker"
  /\ load_tasks' = [ load_tasks EXCEPT ![k].st = "locked" ]
  /\ UNCHANGED << inputs, pc, i, j, schema, heap, blocks, working_block,
                  processed, pool_tasks, calls, fail >>

\* Line 43: std::unique_lock<std::mutex> lock(mutex_)
LoadBlockLock(k) ==
  /\ Alive
  /\ load_tasks[k].st = "parsing"
  /\ mutex_ = "free"
  /\ mutex_' = "worker"
  /\ load_tasks' = [ load_tasks EXCEPT ![k].st = "locked" ]
  /\ UNCHANGED << inputs, pc, i, j, schema, heap, blocks, working_block,
                  processed, pool_tasks, calls, fail >>

\* Mutant of SlotOf: every parse task is bound to the first slot.
SlotOfFirst(k) == 1

\* The slot a parse task installs its block in: &blocks[i] of line 62.
SlotOf(k) == k

\* Lines 44-45: *block = std::move(tmp_block), and the lock is released.
LoadBlockStore(k) ==
  /\ Alive
  /\ load_tasks[k].st = "locked"
  /\ blocks' = [ blocks EXCEPT ![SlotOf(k)] = load_tasks[k].tmp_block ]
  /\ load_tasks' = [ load_tasks EXCEPT ![k] =
                       [ st |-> "unlocked", tmp_block |-> NullBlock ] ]
  /\ mutex_' = "free"
  /\ UNCHANGED << inputs, pc, i, j, schema, heap, working_block, processed,
                  pool_tasks, calls, fail >>

\* Line 46: cv_.notify_one() wakes the controlling thread if it waits.
LoadBlockNotify(k) ==
  /\ Alive
  /\ load_tasks[k].st = "unlocked"
  /\ load_tasks' = [ load_tasks EXCEPT ![k].st = "done" ]
  /\ pc' = IF pc = "drain_wait" THEN "drain_woken" ELSE pc
  /\ UNCHANGED << inputs, i, j, schema, heap, blocks, mutex_, working_block,
                  processed, pool_tasks, calls, fail >>

\* Line 69: the controlling thread locks mutex_.
DrainLock ==
  /\ Alive
  /\ pc = "drain_lock"
  /\ mutex_ = "free"
  /\ mutex_' = "main"
  /\ pc' = "drain_check"
  /\ UNCHANGED << inputs, i, j, schema, heap, blocks, load_tasks, working_block,
                  processed, pool_tasks, calls, fail >>

\* Mutant of SlotReady: the wait returns as soon as any slot holds a block.
SlotReadyAny(k) == \E m \in DOMAIN blocks : blocks[m] # NullBlock

\* Line 70: the predicate of the wait on slot k: block->get() != nullptr.
SlotReady(k) == blocks[k] # NullBlock

\* Lines 70-72: with the lock held the predicate is checked; if it holds the
\* block is moved out of the slot and the lock released, else the thread
\* releases the lock and waits on cv_.
DrainCheck ==
  /\ Alive
  /\ pc = "drain_check"
  /\ IF SlotReady(i + 1)
     THEN /\ working_block' = blocks[i + 1]
          /\ blocks' = [ blocks EXCEPT ![i + 1] = NullBlock ]
          /\ pc' = "process"
     ELSE /\ pc' = "drain_wait"
          /\ UNCHANGED << working_block, blocks >>
  /\ mutex_' = "free"
  /\ UNCHANGED << inputs, i, j, schema, heap, load_tasks, processed, pool_tasks, calls,
                  fail >>

\* cv_.wait may return without a notification.
SpuriousWakeup ==
  /\ Alive
  /\ pc = "drain_wait"
  /\ pc' = "drain_woken"
  /\ UNCHANGED << inputs, i, j, schema, heap, loader, fail >>

\* A woken wait takes the lock again before it checks the predicate.
DrainRelock ==
  /\ Alive
  /\ pc = "drain_woken"
  /\ mutex_ = "free"
  /\ mutex_' = "main"
  /\ pc' = "drain_check"
  /\ UNCHANGED << inputs, i, j, schema, heap, blocks, load_tasks, working_block,
                  processed, pool_tasks, calls, fail >>

\* ---------------------------------------------------------------- ProcessBlock, Finalize
\* A list of (column, slot) pairs as tasks of operation op on array arr; the
\* k-th pair of the list holds the (base + k)-th column created.
TasksOf(pairs, op, arr, base) ==
  [ k \in 1 .. Len(pairs) |->
      [ op |-> op, ptr |-> pairs[k].ptr, slot |-> pairs[k].slot, arr |-> arr,
        serial |-> base + k, st |-> "queued", mode |-> "" ] ]

\* Lines 85-96: the order ProcessBlock enqueues the Add calls in.
FoldList ==
  TasksOf(binned_float_columns_, "Add", "float", 0)
    \o TasksOf(raw_float_columns_, "Add", "float", Len(binned_float_columns_))
    \o TasksOf(string_columns_, "Add", "string",
               Len(binned_float_columns_) + Len(raw_float_columns_))

\* Lines 101-109: the order Finalize enqueues the Finalize calls in.
FinalizeList ==
  TasksOf(binned_float_columns_, "Finalize", "none", 0)
    \o TasksOf(string_columns_, "Finalize", "none",
               Len(binned_float_columns_) + Len(raw_float_columns_))
    \o TasksOf(raw_float_columns_, "Finalize", "none", Len(binned_float_columns_))

\* Line 73 and line 84: ProcessBlock is entered with the block.
ProcessBlock ==
  /\ Alive
  /\ pc = "process"
  /\ processed' = Append(processed, working_block.file)
  /\ pool_tasks' = <<>>
  /\ j' = 0
  /\ pc' = "fold_enqueue"
  /\ UNCHANGED << inputs, i, schema, heap, blocks, mutex_, load_tasks,
                  working_block, calls, fail >>

\* Lines 85-96, one Enqueue.
FoldEnqueue ==
  /\ Alive
  /\ pc = "fold_enqueue"
  /\ IF j < Len(FoldList)
     THEN /\ pool_tasks' = Append(pool_tasks, FoldList[j + 1])
          /\ j' = j + 1
          /\ pc' = pc
     ELSE /\ pc' = "fold_join"
          /\ UNCHANGED << pool_tasks, j >>
  /\ UNCHANGED << inputs, i, schema, heap, blocks, mutex_, load_tasks,
                  working_block, processed, calls, fail >>

\* ~ThreadPool: every task enqueued has run to its end.
PoolJoined == \A t \in DOMAIN pool_tasks : pool_tasks[t].st = "done"

\* Mutant of FoldPoolJoined: the pool outlives ProcessBlock, which returns
\* without waiting for its tasks.
FoldPoolLeaked == TRUE

\* Lines 84 and 97: the pool is a local of ProcessBlock, so ProcessBlock
\* returns only when the pool has been destroyed, which joins its tasks.
FoldPoolJoined == PoolJoined

\* Line 97: the pool of ProcessBlock is joined, the block is destroyed, and
\* the loop of line 65 goes on to the next slot.
FoldJoin ==
  /\ Alive
  /\ pc = "fold_join"
  /\ FoldPoolJoined
  /\ pool_tasks' = <<>>
  /\ working_block' = NullBlock
  /\ i' = i + 1
  /\ pc' = IF DrainMore(i + 1) THEN "drain_lock" ELSE "finalize"
  /\ UNCHANGED << inputs, j, schema, heap, blocks, mutex_, load_tasks,
                  processed, calls, fail >>

\* Mutant of Finalize: on entry the position lists, which no block will be
\* parsed with any more, are cleared.
FinalizeAndClear ==
  /\ Alive
  /\ pc = "finalize"
  /\ pool_tasks' = <<>>
  /\ j' = 0
  /\ pc' = "finalize_enqueue"
  /\ float_column_indices_' = <<>>
  /\ string_column_indices_' = <<>>
  /\ UNCHANGED << inputs, i, map_from_header_to_index, column_map_,
                  binned_float_columns_, raw_float_columns_, string_columns_,
                  heap, blocks, mutex_, load_tasks, working_block, processed,
                  calls, fail >>

\* Lines 77 and 100: Finalize is entered.
Finalize ==
  /\ Alive
  /\ pc = "finalize"
  /\ pool_tasks' = <<>>
  /\ j' = 0
  /\ pc' = "finalize_enqueue"
  /\ UNCHANGED << inputs, i, schema, heap, blocks, mutex_, load_tasks,
                  working_block, processed, calls, fail >>

\* Lines 101-109, one Enqueue.
FinalizeEnqueue ==
  /\ Alive
  /\ pc = "finalize_enqueue"
  /\ IF j < Len(FinalizeList)
     THEN /\ pool_tasks' = Append(pool_tasks, FinalizeList[j + 1])
          /\ j' = j + 1
          /\ pc' = pc
     ELSE /\ pc' = "finalize_join"
          /\ UNCHANGED << pool_tasks, j >>
  /\ UNCHANGED << inputs, i, schema, heap, blocks, mutex_, load_tasks,
                  working_block, processed, calls, fail >>

\* Lines 100 and 110: the pool is a local of Finalize.
FinalizePoolJoined == PoolJoined

\* Line 110: the pool of Finalize is joined.
FinalizeJoin ==
  /\ Alive
  /\ pc = "finalize_join"
  /\ FinalizePoolJoined
  /\ pool_tasks' = <<>>
  /\ pc' = "return"
  /\ UNCHANGED << inputs, i, j, schema, heap, blocks, mutex_, load_tasks,
                  working_block, processed, calls, fail >>

\* Line 81: LoadTSVs returns; its pool is joined first.
Return ==
  /\ Alive
  /\ pc = "return"
  /\ \A k \in DOMAIN load_tasks : load_tasks[k].st = "done"
  /\ pc' = "done"
  /\ UNCHANGED << inputs, i, j, schema, heap, loader, fail >>

\* ---------------------------------------------------------------- pool workers
PoolRunning ==
  Cardinality({ t \in DOMAIN pool_tasks : pool_tasks[t].st = "running" })

\* The pointer of task t is stale: the column it was made for has been
\* deleted (by a later reset of the same name in SetupColumns).
Stale(t) ==
  \/ heap[pool_tasks[t].ptr].st # "live"
  \/ heap[pool_tasks[t].ptr].serial # pool_tasks[t].serial

\* The slice of the block bound to task t: &block->float_columns()[p.second]
\* or &block->string_columns()[p.second].
Slice(t) ==
  IF pool_tasks[t].arr = "float"
  THEN working_block.float_columns[pool_tasks[t].slot + 1]
  ELSE working_block.string_columns[pool_tasks[t].slot + 1]

\* The process dies of undefined behaviour.
Crash ==
  /\ fail' = "undefined_behaviour"
  /\ UNCHANGED << inputs, pc, i, j, schema, heap, loader >>

\* A worker takes task t and enters Add or Finalize on its column. A call
\* through a stale pointer, or one that races with another call on the same
\* object, is undefined: it may kill the process, or go on, on whatever object
\* is at that address now ("wild"), or on freed memory ("lost").
TaskStart(t) ==
  /\ Alive
  /\ pool_tasks[t].st = "queued"
  /\ PoolRunning < num_threads
  /\ LET a == pool_tasks[t].ptr
         busy == heap[a].inAdd + heap[a].inFin > 0
         mode == IF heap[a].st # "live" THEN "lost"
                 ELSE IF Stale(t) \/ busy THEN "wild" ELSE "ok"
     IN  \/ /\ mode # "ok"
            /\ Crash
         \/ /\ pool_tasks' = [ pool_tasks EXCEPT ![t].st = "running", ![t].mode = mode ]
            /\ heap' = IF mode = "lost" THEN heap
                       ELSE IF pool_tasks[t].op = "Add"
                            THEN [ heap EXCEPT ![a].inAdd = @ + 1 ]
                            ELSE [ heap EXCEPT ![a].inFin = @ + 1 ]
            /\ UNCHANGED << inputs, pc, i, j, schema, blocks, mutex_, load_tasks,
                            working_block, processed, calls, fail >>

\* Column::Add(slice): the rows of the slice are appended.
ColumnAdd(col, slice, f) ==
  [ col EXCEPT !.rows = @ \o slice, !.adds = Append(@, f), !.inAdd = @ - 1 ]

\* Column::Finalize()
ColumnFinalize(col) ==
  [ col EXCEPT !.nFin = @ + 1, !.inFin = @ - 1 ]

\* The call of task t returns.
TaskEnd(t) ==
  /\ Alive
  /\ pool_tasks[t].st = "running"
  /\ LET a == pool_tasks[t].ptr IN
       /\ pool_tasks' = [ pool_tasks EXCEPT ![t].st = "done" ]
       /\ calls' = calls \cup { [ op |-> pool_tasks[t].op, serial |-> pool_tasks[t].serial,
                                  file |-> working_block.file ] }
       /\ heap' = IF pool_tasks[t].mode = "lost" THEN heap
                  ELSE IF pool_tasks[t].op = "Add"
                       THEN [ heap EXCEPT ![a] = ColumnAdd(@, Slice(t), working_block.file) ]
                       ELSE [ heap EXCEPT ![a] = ColumnFinalize(@) ]
  /\ UNCHANGED << inputs, pc, i, j, schema, blocks, mutex_, load_tasks,
                  working_block, processed, fail >>

\* ---------------------------------------------------------------- specification
\* The whole load: over a header line with the columns id, x and y and one
\* with the column id alone (so that every configured name is missing), and
\* over the configurations whose binned columns are named x and whose
\* categorical columns are named y (a raw column is named x or y).
LoadHeaders ==
  { << <<"i", "d">>, <<" ", "x">>, <<"y", "\n">> >>, << <<"i", "d">> >> }

Range(q) == { q[k] : k \in DOMAIN q }

LoadConfigs ==
  { c \in Configs : /\ Range(c.binned_float_column) \subseteq { <<"x">> }
                    /\ Range(c.string_column) \subseteq { <<"y">> } }

Init == InitWith(LoadHeaders, LoadConfigs, FileLists, 1 .. MaxThreads)

Main ==
  \/ ReadHeader \/ SetupBinned \/ SetupRaw \/ SetupString
  \/ CreateBlocks \/ EnqueueLoad
  \/ DrainLock \/ DrainCheck \/ SpuriousWakeup \/ DrainRelock
  \/ ProcessBlock \/ FoldEnqueue \/ FoldJoin
  \/ Finalize \/ FinalizeEnqueue \/ FinalizeJoin \/ Return

Next ==
  \/ Main
  \/ \E k \in DOMAIN load_tasks :
       LoadBlockParse(k) \/ LoadBlockLock(k) \/ LoadBlockStore(k) \/ LoadBlockNotify(k)
  \/ \E t \in DOMAIN pool_tasks : TaskStart(t) \/ TaskEnd(t)

Spec == Init /\ [][Next]_vars

\* SetupColumns on its own, over every header line and configuration.
InitSetup == InitWith(HeaderFiles, Configs, { <<>> }, { 1 })

NextSetup == ReadHeader \/ SetupBinned \/ SetupRaw \/ SetupString

SpecSetup == InitSetup /\ [][NextSetup]_vars

\* The whole load over the smallest configuration in which the address of a
\* deleted column is handed out again: the second x deletes the column of the
\* first, and the column of y may be allocated where that one was.
AliasConfigs ==
  { [ binned_float_column |-> << <<"x">>, <<"x">>, <<"y">> >>,
      raw_float_column |-> <<>>, string_column |-> <<>> ] }

AliasHeaders == { << <<"i", "d">>, <<" ", "x">>, <<"y", "\n">> >> }

InitAlias == InitWith(AliasHeaders, AliasConfigs, FileLists, 1 .. MaxThreads)

SpecAlias == InitAlias /\ [][Next]_vars

\* The steps of the controlling thread that it takes by itself; a return of
\* cv_.wait without a notification is not one the thread can count on.
MainStep ==
  \/ ReadHeader \/ SetupBinned \/ SetupRaw \/ SetupString
  \/ CreateBlocks \/ EnqueueLoad
  \/ DrainLock \/ DrainCheck \/ DrainRelock
  \/ ProcessBlock \/ FoldEnqueue \/ FoldJoin
  \/ Finalize \/ FinalizeEnqueue \/ FinalizeJoin \/ Return

\* The steps of the parse task of file k that need nothing but a worker.
LoadStep(k) ==
  /\ k \in DOMAIN load_tasks
  /\ (LoadBlockParse(k) \/ LoadBlockStore(k) \/ LoadBlockNotify(k))

\* Line 43 in the parse task of file k.
LoadLockStep(k) == k \in DOMAIN load_tasks /\ LoadBlockLock(k)

\* The steps of the t-th task of the pool of ProcessBlock or Finalize.
PoolStep(t) == t \in DOMAIN pool_tasks /\ (TaskStart(t) \/ TaskEnd(t))

\* The scheduling the load relies on: every thread that can run does run in
\* the end, and a thread that asks for mutex_ again and again, while it is free
\* again and again, gets it in the end.
Fairness ==
  /\ WF_vars(MainStep)
  /\ \A k \in 1 .. MaxFiles : WF_vars(LoadStep(k)) /\ SF_vars(LoadLockStep(k))
  /\ \A t \in 1 .. MaxCols : WF_vars(PoolStep(t))

SpecLive == Init /\ [][Next]_vars /\ Fairness

\* ---------------------------------------------------------------- properties
\* The configured columns in the order SetupColumns creates them (binned, raw,
\* categorical): the serial-th of them, with the list entry made for it.
AllNames ==
  config.binned_float_column \o config.raw_float_column \o config.string_column

DistinctNames ==
  \A p, q \in DOMAIN AllNames : p # q => AllNames[p] # AllNames[q]

Entries ==
  [ k \in 1 .. Len(binned_float_columns_) |->
      [ pair |-> binned_float_columns_[k], type |-> "float", kind |-> "binned",
        name |-> config.binned_float_column[k] ] ]
  \o [ k \in 1 .. Len(raw_float_columns_) |->
      [ pair |-> raw_float_columns_[k], type |-> "float", kind |-> "raw",
        name |-> config.raw_float_column[k] ] ]
  \o [ k \in 1 .. Len(string_columns_) |->
      [ pair |-> string_columns_[k], type |-> "string", kind |-> "string",
        name |-> config.string_column[k] ] ]

\* The zero-based header positions whose trimmed name is name.
PositionsOf(name) ==
  { p \in 0 .. Len(header_file) - 1 : TrimWhiteSpace(header_file[p + 1]) = name }

\* The rows of the column at header position p in the first n files.
RECURSIVE RowsOfFiles(_, _, _)
RowsOfFiles(n, p, type) ==
  IF n = 0 THEN <<>>
  ELSE RowsOfFiles(n - 1, p, type)
         \o [ r \in 1 .. NumRows(n - 1) |-> << type, Cell(n - 1, r, p) >> ]

\* C1: blocks are handed to ProcessBlock in input-file order, whatever order
\* the parse tasks complete in: the k-th call of ProcessBlock receives the
\* block of the k-th file, and the Add calls a column sees are in file order
\* (they are exactly those of files 0, 1, ... when no name is configured twice).
C1_OrderedDelivery ==
  /\ \A k \in DOMAIN processed : processed[k] = k - 1
  /\ \A a \in Addr : \A k \in DOMAIN heap[a].adds :
       /\ k > 1 => heap[a].adds[k - 1] <= heap[a].adds[k]
       /\ DistinctNames => heap[a].adds[k] = k - 1

\* Both files were folded in order although the parse task of the second file
\* had returned while that of the first had not.
C1_Witness ==
  /\ Len(processed) = 2
  /\ load_tasks[2].st = "done"
  /\ load_tasks[1].st = "unlocked"
  /\ \E a \in Addr : heap[a].adds = << 0, 1 >>

\* C2: after a successful load every configured column holds the
\* concatenation, in file order, of its own column of each file.
C2_RowsConcatenated ==
  pc = "done" =>
    \A e \in DOMAIN Entries :
      /\ heap[Entries[e].pair.ptr].st = "live"
      /\ heap[Entries[e].pair.ptr].serial = e
      /\ \E p \in PositionsOf(Entries[e].name) :
           heap[Entries[e].pair.ptr].rows = RowsOfFiles(Len(tsvs), p, Entries[e].type)

\* C3: an accumulator is never in Add and in Finalize at once, and once its
\* Finalize has started or returned no Add call starts or returns on it.
C3_NoAddOnceFinalizing ==
  /\ [](\A a \in Addr : ~(heap[a].inAdd > 0 /\ heap[a].inFin > 0))
  /\ [][\A a \in Addr :
          (heap[a].inFin > 0 \/ heap[a].nFin > 0) =>
            /\ heap'[a].inAdd = 0
            /\ heap'[a].adds = heap[a].adds
            /\ heap'[a].rows = heap[a].rows]_vars

\* A Finalize has returned on an accumulator that took the Add calls of two
\* files.
C3_Witness ==
  \E a \in Addr : heap[a].nFin = 1 /\ Len(heap[a].adds) = 2

\* A Finalize task has been enqueued.
FinalizeSubmitted ==
  \E t \in DOMAIN pool_tasks : pool_tasks[t].op = "Finalize"

\* C4: no Finalize task is enqueued or started until the Add call of every
\* configured column on the block of every file, the last included, has
\* returned.
C4_FinalizeAfterAllFolds ==
  (FinalizeSubmitted \/ \E a \in Addr : heap[a].inFin > 0 \/ heap[a].nFin > 0) =>
    /\ Len(processed) = Len(tsvs)
    /\ \A a \in Addr : heap[a].inAdd = 0
    /\ \A e \in DOMAIN Entries : \A f \in 0 .. Len(tsvs) - 1 :
         [ op |-> "Add", serial |-> e, file |-> f ] \in calls

\* The Finalize of one of two accumulators runs after two files were folded.
C4_Witness ==
  /\ Len(tsvs) = 2
  /\ Len(Entries) = 2
  /\ \E t \in DOMAIN pool_tasks :
       pool_tasks[t].op = "Finalize" /\ pool_tasks[t].st = "running"

\* No Add or Finalize call has been made, enqueued or started on any column.
NoColumnCalled ==
  /\ calls = {}
  /\ processed = <<>>
  /\ pool_tasks = <<>>
  /\ \A a \in Addr :
       /\ heap[a].inAdd = 0 /\ heap[a].inFin = 0 /\ heap[a].nFin = 0
       /\ heap[a].adds = <<>> /\ heap[a].rows = <<>>

\* Some input file does not exist.
MissingFile == \E k \in DOMAIN tsvs : ~tsvs[k]

\* C5: when the load fails on a missing file, no parse task has been
\* enqueued for any file.
C5_NoParseTaskBeforeFailure ==
  fail = "tsv_missing" => \A k \in DOMAIN load_tasks : load_tasks[k].st = "none"

\* C6: when some input file is missing, the load never gets past the loop
\* that checks the files, and no column ever receives an Add or a Finalize
\* call, whatever the parse tasks of earlier files have done.
C6_AtomicFailure ==
  MissingFile =>
    /\ pc \in { "read_header", "setup_binned", "setup_raw", "setup_string",
                "create_blocks", "enqueue" }
    /\ NoColumnCalled

\* The load failed on its second file after the parse task of the first had
\* installed its block, with a column set up.
C6_Witness ==
  /\ fail = "tsv_missing"
  /\ i = 1
  /\ blocks[1] # NullBlock
  /\ \E a \in Addr : heap[a].st = "live"

\* Some configured name is absent from the header.
MissingName == \E k \in DOMAIN AllNames : PositionsOf(AllNames[k]) = {}

\* C7: when a configured name is absent from the header, the load never gets
\* past SetupColumns: no slot array is made, no file is checked for existence,
\* no parse task is enqueued and no column receives an Add or Finalize call.
C7_MissingNameFailsInSetup ==
  MissingName =>
    /\ pc \in { "read_header", "setup_binned", "setup_raw", "setup_string" }
    /\ blocks = <<>>
    /\ load_tasks = <<>>
    /\ NoColumnCalled

\* The load of two existing files failed on a categorical name.
C7_Witness ==
  /\ fail = "column_not_found"
  /\ pc = "setup_string"
  /\ tsvs = << TRUE, TRUE >>

\* C8: when every configured name is in the header, SetupColumns leaves the
\* numeric position list holding a header position of each binned name, then
\* of each raw name, in declaration order, the categorical list one of each
\* categorical name, and numbers the slots densely from 0 in each list, so that
\* the list entry at a column's slot is a header position of its name.
C8_SlotLayout ==
  (pc = "create_blocks") =>
    LET nb == Len(config.binned_float_column)
        nr == Len(config.raw_float_column)
        ns == Len(config.string_column)
    IN  /\ Len(binned_float_columns_) = nb
        /\ Len(raw_float_columns_) = nr
        /\ Len(string_columns_) = ns
        /\ Len(float_column_indices_) = nb + nr
        /\ Len(string_column_indices_) = ns
        /\ \A k \in 1 .. nb :
             /\ binned_float_columns_[k].slot = k - 1
             /\ float_column_indices_[k] \in PositionsOf(config.binned_float_column[k])
        /\ \A k \in 1 .. nr :
             /\ raw_float_columns_[k].slot = nb + k - 1
             /\ float_column_indices_[nb + k] \in PositionsOf(config.raw_float_column[k])
        /\ \A k \in 1 .. ns :
             /\ string_columns_[k].slot = k - 1
             /\ string_column_indices_[k] \in PositionsOf(config.string_column[k])

\* A binned column at a later header position than the raw column after it.
C8_Witness ==
  /\ pc = "create_blocks"
  /\ Len(binned_float_columns_) = 1
  /\ Len(raw_float_columns_) = 1
  /\ raw_float_columns_[1].slot = 1
  /\ float_column_indices_[1] > float_column_indices_[2]

\* C9 as stated: the numeric and the categorical position list are disjoint.
C9_ListsDisjoint ==
  (pc = "create_blocks") =>
    Range(float_column_indices_) \cap Range(string_column_indices_) = {}

\* No name is configured both as a numeric and as a categorical column.
NoSharedName ==
  (Range(config.binned_float_column) \cup Range(config.raw_float_column))
    \cap Range(config.string_column) = {}

\* C9, amended: the two position lists are disjoint when no name is
\* configured both as a numeric and as a categorical column.
C9_ListsDisjointUnlessShared ==
  (pc = "create_blocks" /\ NoSharedName) =>
    Range(float_column_indices_) \cap Range(string_column_indices_) = {}

\* A numeric and a categorical column of different names were resolved.
C9_Witness ==
  /\ pc = "create_blocks"
  /\ NoSharedName
  /\ float_column_indices_ # <<>>
  /\ string_column_indices_ # <<>>

\* C10: after SetupColumns every occurrence of a configured name refers to
\* an accumulator of its own that the store still owns.
C10_OccurrencesOwned ==
  (pc = "create_blocks") =>
    \A e \in DOMAIN Entries :
      /\ heap[Entries[e].pair.ptr].st = "live"
      /\ heap[Entries[e].pair.ptr].serial = e
      /\ \E n \in DOMAIN column_map_ : column_map_[n] = Entries[e].pair.ptr
      /\ \A d \in DOMAIN Entries : d # e => Entries[d].pair.ptr # Entries[e].pair.ptr

\* The files 0 .. n-1 in order.
FilesInOrder(n) == [ k \in 1 .. n |-> k - 1 ]

\* C11: on a successful load every accumulator has received exactly one Add
\* call per input file and exactly one Finalize call, and its Finalize runs
\* only once all its Add calls have returned.
C11_ExactlyOncePerFile ==
  \A a \in Addr :
    heap[a].st = "live" =>
      /\ heap[a].nFin <= 1
      /\ (heap[a].inFin > 0 \/ heap[a].nFin > 0) =>
           heap[a].adds = FilesInOrder(Len(tsvs))
      /\ pc = "done" =>
           heap[a].adds = FilesInOrder(Len(tsvs)) /\ heap[a].nFin = 1

\* The controlling thread is in the wait of lines 69-70.
InWait == pc \in { "drain_lock", "drain_check", "drain_wait", "drain_woken" }

LastPosition(name) ==
  CHOOSE p \in PositionsOf(name) : \A q \in PositionsOf(name) : q <= p

\* The position list that a list of configured names resolves to.
LayoutPositions(names) == [ k \in 1 .. Len(names) |-> LastPosition(names[k]) ]

\* The slot indices stored in a list of (column, slot) pairs.
SlotsOf(pairs) == [ k \in 1 .. Len(pairs) |-> pairs[k].slot ]

\* The slot indices a list of n columns gets when base slots are taken.
DenseSlots(n, base) == [ k \in 1 .. n |-> base + k - 1 ]

\* C13: the slot layout is a function of the header and the configuration
\* alone: whatever addresses the allocator hands out, a completed resolution
\* leaves the same two position lists and the same slot index in every column,
\* so two resolutions of the same header and configuration agree on them.
C13_LayoutDetermined ==
  (pc = "create_blocks") =>
    /\ float_column_indices_ =
         LayoutPositions(config.binned_float_column \o config.raw_float_column)
    /\ string_column_indices_ = LayoutPositions(config.string_column)
    /\ SlotsOf(binned_float_columns_) = DenseSlots(Len(config.binned_float_column), 0)
    /\ SlotsOf(raw_float_columns_) =
         DenseSlots(Len(config.raw_float_column), Len(config.binned_float_column))
    /\ SlotsOf(string_columns_) = DenseSlots(Len(config.string_column), 0)

\* A resolution that has completed with a numeric and a categorical column,
\* the categorical one at slot 0 of its list though it was allocated second.
C13_Witness ==
  /\ pc = "create_blocks"
  /\ Len(float_column_indices_) = 1
  /\ Len(string_columns_) = 1
  /\ string_columns_[1].ptr = 2
  /\ string_columns_[1].slot = 0

\* The Add tasks of the pool that have been taken by a worker and not returned.
AddsRunning ==
  { t \in DOMAIN pool_tasks :
      pool_tasks[t].op = "Add" /\ pool_tasks[t].st = "running" }

\* C14: Add tasks exist only inside ProcessBlock, all of them for the one block
\* ProcessBlock was entered with, and ProcessBlock leaves none of them behind,
\* so at most one block is being folded at any time; and no accumulator is ever
\* inside two Add calls at once.
C14_FoldBarrier ==
  /\ (\E t \in DOMAIN pool_tasks : pool_tasks[t].op = "Add") =>
       /\ pc \in { "fold_enqueue", "fold_join" }
       /\ working_block # NullBlock
       /\ working_block.file = i
  /\ pc \notin { "fold_enqueue", "fold_join" } => AddsRunning = {}
  /\ \A a \in Addr : heap[a].inAdd <= 1

\* The controlling thread is inside ProcessBlock, or about to enter it.
InFold == pc \in { "process", "fold_enqueue", "fold_join" }

\* The controlling thread has taken the block out of slot k.
Taken(k) ==
  /\ pc \in { "drain_lock", "drain_check", "drain_wait", "drain_woken", "process",
              "fold_enqueue", "fold_join", "finalize", "finalize_enqueue",
              "finalize_join", "return", "done" }
  /\ k <= i \/ (k = i + 1 /\ InFold)

\* The slots are where the parse tasks left them: a filled slot holds the block
\* of its own file, put there by its own parse task, and a slot that has been
\* taken stays empty; the block in hand is that of the slot last waited on, is
\* alive while any Add runs, and is gone before the next wait.
BlocksOwned ==
  /\ \A k \in DOMAIN blocks :
       /\ blocks[k] # NullBlock =>
            /\ blocks[k].file = k - 1
            /\ load_tasks[k].st \in { "unlocked", "done" }
       /\ Taken(k) => blocks[k] = NullBlock
  /\ working_block # NullBlock <=> InFold
  /\ InFold => working_block.file = i
  /\ AddsRunning # {} => working_block # NullBlock

\* A step changes slot k only by the store of parse task k into the empty
\* slot, or by the controlling thread, at the slot it waits on, moving the
\* block out into its hands.
SlotStep(k) ==
  \/ /\ blocks[k] = NullBlock
     /\ load_tasks[k].st = "locked"
     /\ load_tasks'[k].st = "unlocked"
     /\ blocks'[k] = load_tasks[k].tmp_block
  \/ /\ blocks[k] # NullBlock
     /\ blocks'[k] = NullBlock
     /\ pc = "drain_check"
     /\ k = i + 1
     /\ working_block' = blocks[k]

\* C15: slot i is written once, by the parse task of tsvs[i] alone, and emptied
\* once, by the controlling thread while it waits on slot i; Add tasks run only
\* while their block is alive, and the block is destroyed when ProcessBlock
\* returns, before the wait on slot i+1.
C15_BlockLifecycle ==
  /\ []BlocksOwned
  /\ [][\A k \in DOMAIN blocks :
          (k \in DOMAIN blocks' /\ blocks'[k] # blocks[k]) => SlotStep(k)]_vars

\* The second block is being folded: both slots are empty again, the block in
\* hand is that of the second file and an Add call is reading it.
C15_Witness ==
  /\ pc = "fold_join"
  /\ i = 1
  /\ working_block.file = 1
  /\ blocks = << NullBlock, NullBlock >>
  /\ AddsRunning # {}

\* The parse tasks that are between their lock of line 43 and its release.
InStore == { k \in DOMAIN load_tasks : load_tasks[k].st = "locked" }

\* The controlling thread is between the lock of line 69 (or the relock of
\* the wait) and its release: it checks the predicate and takes the block.
InTake == pc = "drain_check"

\* At most one thread is inside a critical section, and it holds mutex_.
MutualExclusion ==
  /\ Cardinality(InStore) + (IF InTake THEN 1 ELSE 0) <= 1
  /\ mutex_ = "worker" <=> InStore # {}
  /\ mutex_ = "main" <=> InTake

\* C16: once the slot array has been made, a parse task's install and the
\* controlling thread's check-and-take are mutually exclusive, and the slot
\* array is only ever changed by the thread that holds mutex_: filled by a
\* parse task that holds it, emptied by the controlling thread that holds it.
C16_SlotsUnderMutex ==
  /\ []MutualExclusion
  /\ [][(blocks' # blocks /\ pc # "create_blocks") =>
          \E k \in DOMAIN blocks :
            /\ \A m \in DOMAIN blocks \ {k} : blocks'[m] = blocks[m]
            /\ IF blocks[k] = NullBlock
               THEN mutex_ = "worker" /\ k \in InStore
               ELSE mutex_ = "main" /\ InTake]_vars

\* The controlling thread holds mutex_ for its check of a slot that is still
\* empty while a parse task that has parsed its block wants mutex_ for its
\* install.
C16_Witness ==
  /\ InTake
  /\ ~SlotReady(i + 1)
  /\ \E k \in DOMAIN load_tasks : load_tasks[k].st = "parsing"

\* SetupColumns is running.
InSetup == pc \in { "read_header", "setup_binned", "setup_raw", "setup_string" }

\* What SetupColumns leaves in the store: the registry, the three lists of
\* (column, slot) pairs and the two position lists.
layout == << column_map_, binned_float_columns_, raw_float_columns_,
             string_columns_, float_column_indices_, string_column_indices_ >>

\* C17: no step taken after SetupColumns has returned (by the controlling
\* thread, a parse task, or an Add or Finalize task) changes the registry, the
\* per-kind lists with their slot indices, or the two position lists.
C17_LayoutFrozen == [][~InSetup => UNCHANGED layout]_vars

\* The load has returned after folding a file into a column, with the
\* registry and the lists still holding that column.
C17_Witness ==
  /\ pc = "done"
  /\ Len(processed) >= 1
  /\ DOMAIN column_map_ # {}
  /\ Len(float_column_indices_) + Len(string_column_indices_) >= 1

\* The submission loop of lines 59-63 is over.
Submitted == ~InSetup /\ pc \notin { "create_blocks", "enqueue" }

\* C18: every parse task has been submitted before the first wait and the
\* first fold, and what a parse task waits for is a free worker and mutex_
\* alone, never the progress of the controlling thread: a queued task can start
\* whenever a worker is free, a parsed one can lock whenever mutex_ is free,
\* and one that holds mutex_ can store and notify, also in the middle of a fold.
C18_NoBackPressure ==
  /\ Submitted => \A k \in DOMAIN load_tasks : load_tasks[k].st # "none"
  /\ Alive =>
       \A k \in DOMAIN load_tasks :
         /\ (load_tasks[k].st = "queued" /\ LoadRunning < num_threads)
              => ENABLED LoadBlockParse(k)
         /\ (load_tasks[k].st = "parsing" /\ mutex_ = "free")
              => ENABLED LoadBlockLock(k)
         /\ load_tasks[k].st = "locked" => ENABLED LoadBlockStore(k)
         /\ load_tasks[k].st = "unlocked" => ENABLED LoadBlockNotify(k)

\* The block of the first file is being folded while that of the second, and
\* last, file lies parsed in its slot: every block of the load is resident.
C18_Witness ==
  /\ Len(tsvs) = MaxFiles
  /\ i = 0
  /\ AddsRunning # {}
  /\ working_block.file = 0
  /\ \A k \in 2 .. Len(blocks) : blocks[k] # NullBlock

\* C19: with no input file the load does not die after SetupColumns, no parse
\* task is submitted, the controlling thread never enters the wait, no column
\* receives an Add call, and when the load has returned the accumulator of
\* every configured column is alive and has been finalized exactly once.
C19_EmptyLoad ==
  (tsvs = <<>>) =>
    /\ fail # "undefined_behaviour"
    /\ load_tasks = <<>>
    /\ ~InWait /\ ~InFold
    /\ \A c \in calls : c.op # "Add"
    /\ \A a \in Addr : heap[a].adds = <<>> /\ heap[a].inAdd = 0
    /\ pc = "done" =>
         \A e \in DOMAIN Entries :
           LET col == heap[Entries[e].pair.ptr]
           IN  col.st = "live" /\ col.serial = e /\ col.nFin = 1

\* The header position the e-th column created has been resolved to: the
\* entry of its position list at its slot.
ResolvedPosition(e) ==
  IF Entries[e].type = "float"
  THEN float_column_indices_[Entries[e].pair.slot + 1]
  ELSE string_column_indices_[Entries[e].pair.slot + 1]

\* Some trimmed name is at more than one position of the header.
RepeatedInHeader(name) == Cardinality(PositionsOf(name)) >= 2

\* C20: a name that is in the header more than once is mapped to its last
\* position there, and every configured column of that name is resolved to that
\* position, never to an earlier one.
C20_LastOccurrenceWins ==
  /\ \A n \in DOMAIN map_from_header_to_index :
       RepeatedInHeader(n) => map_from_header_to_index[n] = LastPosition(n)
  /\ \A e \in DOMAIN Entries :
       RepeatedInHeader(Entries[e].name) =>
         /\ ResolvedPosition(e) = LastPosition(Entries[e].name)
         /\ \A q \in PositionsOf(Entries[e].name) : q <= ResolvedPosition(e)

\* SetupColumns has returned with a column whose name is at two positions of
\* the header at least, resolved to a position that is not the first.
C20_Witness ==
  /\ pc = "create_blocks"
  /\ \E e \in DOMAIN Entries :
       /\ RepeatedInHeader(Entries[e].name)
       /\ \E q \in PositionsOf(Entries[e].name) : q < ResolvedPosition(e)

====
